---------------------------- MODULE Spec2Model ----------------------------
(***************************************************************************)
(* The ACL2 encoding tools of scripts/acl2-encoding:                       *)
(*   fix-comment-encoding.py  (the Converter: process_file and main)       *)
(*   scan-non-ascii.py        (the Scanner: scan_file and main)            *)
(*   verify-encoding.py       (the Verifier: verify_file and main)         *)
(* A file is a sequence of byte values 0..255; the tree is a function from *)
(* path numbers to files.                                                  *)
(***************************************************************************)
EXTENDS Integers, Sequences, FiniteSets, TLC

VARIABLES
    tool,               \* which program is running: "fix", "scan", "verify"
    fs,                 \* the tree: path number -> bytes of the file
    unreadable,         \* the paths whose open() raises
    pc,                 \* position of the running program
    pass,               \* "first" or "second" invocation of the Converter
    first,              \* what the first invocation left: its report and the tree
    dry_run, include_excluded, report,  \* args of the Converter
    file_list, idx,     \* main: the sorted file list and the loop position
    all_changes, all_warnings, skipped_utf8, skipped_clean, report_out,
    data, lines, line_no, col, new_line, new_lines,     \* process_file locals
    in_block_comment, in_line_comment, in_string, escape_next, prev_byte,
    changes, warnings, result,
    results, total_hits,        \* Scanner main
    ok_count, problem_files, exit_code      \* Verifier main

mainVars == <<file_list, idx, all_changes, all_warnings, skipped_utf8,
              skipped_clean, report_out>>
argVars == <<dry_run, include_excluded, report>>
clsVars == <<in_block_comment, in_line_comment, in_string, escape_next, prev_byte>>
fileVars == <<data, lines, line_no, col, new_line, new_lines, changes, warnings>>
scanVars == <<results, total_hits>>
verifyVars == <<ok_count, problem_files, exit_code>>
vars == <<tool, fs, unreadable, pc, pass, first, argVars, mainVars, fileVars,
          clsVars, result, scanVars, verifyVars>>

----------------------------------------------------------------------------
(* Byte values the code names with ord(...) or a bytes literal.             *)
LF == 10
DQUOTE == 34
HASH == 35
SEMI == 59
BACKSLASH == 92
BAR == 124
ASCII_MAX == 127
CONTEXT_MAX == 80

(* Bounds of the model.                                                     *)
MaxLen == 4
MaxLine == 2
MaxTreeBytes == 3
MaxScanLen == 3
MaxVerifyLen == 3
MaxBody == 4

None == "None"
Range(s) == {s[i] : i \in DOMAIN s}
\* The byte values files are drawn from: the bytes the classifier reads, the
\* letter a, and the ISO-8859-1 bytes 0xA9, 0xC3 and 0xE9 (0xC3 0xA9 is the
\* UTF-8 encoding of U+00E9).
Bytes == {LF, DQUOTE, HASH, SEMI, BACKSLASH, BAR, 97, 169, 195}
LineBytes == {DQUOTE, HASH, SEMI, BAR, 169, 195}
TreeBytes == {LF, SEMI, 169, 195}
ScanBytes == {LF, 97, 169}
MarkerBytes == {LF, HASH, BAR, 169, 195}
VerifyBytes == {LF, 97, 169, 195, 233}
AllBytes == 0..255
Contents(alphabet, n) == UNION {[1..k -> alphabet] : k \in 0..n}

----------------------------------------------------------------------------
(* bytes and encodings                                                      *)

\* any(b > 127 for b in data)
has_non_ascii(d) == \E i \in DOMAIN d : d[i] > ASCII_MAX

IsCont(b) == b \in 128..191

\* Length of the well-formed UTF-8 sequence that starts at d[i], 0 if none
\* (the strict decoder of bytes.decode('utf-8'): no overlong forms, no
\* surrogates, nothing above U+10FFFF).
Utf8SeqLen(d, i) ==
    LET b == d[i]
        n == Len(d)
        c(k) == i + k <= n /\ IsCont(d[i + k])
        r(k, lo, hi) == i + k <= n /\ d[i + k] \in lo..hi
    IN  IF b <= ASCII_MAX THEN 1
        ELSE IF b \in 194..223 THEN (IF c(1) THEN 2 ELSE 0)
        ELSE IF b = 224 THEN (IF r(1, 160, 191) /\ c(2) THEN 3 ELSE 0)
        ELSE IF b \in 225..236 \cup 238..239 THEN (IF c(1) /\ c(2) THEN 3 ELSE 0)
        ELSE IF b = 237 THEN (IF r(1, 128, 159) /\ c(2) THEN 3 ELSE 0)
        ELSE IF b = 240 THEN (IF r(1, 144, 191) /\ c(2) /\ c(3) THEN 4 ELSE 0)
        ELSE IF b \in 241..243 THEN (IF c(1) /\ c(2) /\ c(3) THEN 4 ELSE 0)
        ELSE IF b = 244 THEN (IF r(1, 128, 143) /\ c(2) /\ c(3) THEN 4 ELSE 0)
        ELSE 0

RECURSIVE Utf8ValidFrom(_, _)
Utf8ValidFrom(d, i) ==
    IF i > Len(d) THEN TRUE
    ELSE LET k == Utf8SeqLen(d, i)
         IN  k > 0 /\ Utf8ValidFrom(d, i + k)

\* data.decode('utf-8') succeeds
is_valid_utf8(d) == Utf8ValidFrom(d, 1)

\* chr(b): ISO-8859-1 byte -> Unicode code point (the same number)
chr(b) == b

\* str.encode('iso-8859-1') in place of str.encode('utf-8')
latin1_encode(cp) == <<cp>>

\* str.encode('utf-8') of one code point below U+0800
utf8_encode(cp) ==
    IF cp <= ASCII_MAX THEN <<cp>>
    ELSE <<192 + (cp \div 64), 128 + (cp % 64)>>

HexDigits == <<"0", "1", "2", "3", "4", "5", "6", "7", "8", "9",
               "a", "b", "c", "d", "e", "f">>
\* f'0x{b:02x}'
hex(b) == <<"0x", HexDigits[(b \div 16) + 1], HexDigits[(b % 16) + 1]>>

\* data.split(b'\n')
RECURSIVE SplitFrom(_, _, _, _)
SplitFrom(d, i, cur, acc) ==
    IF i > Len(d) THEN Append(acc, cur)
    ELSE IF d[i] = LF THEN SplitFrom(d, i + 1, <<>>, Append(acc, cur))
    ELSE SplitFrom(d, i + 1, Append(cur, d[i]), acc)
\* data.splitlines() in place of data.split(b'\n'): no last empty line
split_lines(d) ==
    LET ls == SplitFrom(d, 1, <<>>, <<>>)
    IN  IF Len(ls) > 1 /\ Len(ls[Len(ls)]) = 0 THEN SubSeq(ls, 1, Len(ls) - 1) ELSE ls
split(d) == SplitFrom(d, 1, <<>>, <<>>)

\* b'\n'.join(new_lines)
RECURSIVE join(_)
join(ls) ==
    IF Len(ls) = 0 THEN <<>>
    ELSE IF Len(ls) = 1 THEN ls[1]
    ELSE ls[1] \o <<LF>> \o join(Tail(ls))

\* str.strip(): code points that str.isspace() holds of, below U+0100
IsSpace(cp) == cp \in (9..13) \cup (28..32) \cup {133, 160}
RECURSIVE lstrip(_)
lstrip(s) == IF Len(s) > 0 /\ IsSpace(s[1]) THEN lstrip(Tail(s)) ELSE s
RECURSIVE rstrip(_)
rstrip(s) ==
    IF Len(s) > 0 /\ IsSpace(s[Len(s)]) THEN rstrip(SubSeq(s, 1, Len(s) - 1)) ELSE s
strip(s) == rstrip(lstrip(s))

\* line.decode('iso-8859-1').strip(), cut to 80 characters and '...'
context_of(line) ==
    LET context_str == strip([i \in DOMAIN line |-> chr(line[i])])
    IN  IF Len(context_str) > CONTEXT_MAX
        THEN [text |-> SubSeq(context_str, 1, CONTEXT_MAX), dots |-> TRUE]
        ELSE [text |-> context_str, dots |-> FALSE]

----------------------------------------------------------------------------
(* the tree                                                                 *)

\* The paths of the model, relative to ACL2_DIR, in sorted() order.
PathNames == <<
    [dir |-> <<>>, name |-> "a", ext |-> "lisp"],
    [dir |-> <<"books", "projects", "python">>, name |-> "t", ext |-> "lisp"],
    [dir |-> <<"books", "quicklisp">>, name |-> "q", ext |-> "lisp"],
    [dir |-> <<>>, name |-> "readme", ext |-> "txt"] >>

\* Directories to exclude (relative to ACL2_DIR, with trailing /)
EXCLUDE_DIRS == << <<"books", "quicklisp">> >>

\* ('*.lisp', '*.lsp', '*.acl2', '*.cl')
SOURCE_EXTS == {"lisp", "lsp", "acl2", "cl"}

\* relpath.startswith(ex), ex a directory with its trailing '/'
startswith(p, ex) ==
    LET d == PathNames[p].dir
    IN  Len(ex) <= Len(d) /\ SubSeq(d, 1, Len(ex)) = ex

\* glob.glob(os.path.join(acl2_dir, '**', ext), recursive=True) over the four
\* extensions
glob(tree) == {p \in DOMAIN tree : PathNames[p].ext \in SOURCE_EXTS}

\* sorted(file_set): the path numbers follow the sorted order of the names
RECURSIVE sorted(_)
sorted(S) ==
    IF S = {} THEN <<>>
    ELSE LET m == CHOOSE x \in S : \A y \in S : x <= y
         IN  <<m>> \o sorted(S \ {m})

\* main, "Apply exclusions"
apply_exclusions(S, incl) ==
    IF ~incl
    THEN {p \in S : ~(\E i \in DOMAIN EXCLUDE_DIRS : startswith(p, EXCLUDE_DIRS[i]))}
    ELSE S

put(m, k, v) == [x \in (DOMAIN m) \cup {k} |-> IF x = k THEN v ELSE m[x]]
EmptyMap == [x \in {} |-> <<>>]
\* len(all_changes) in place of the sum of the list lengths
count_files(m, S) == Cardinality(S)
RECURSIVE sum_len(_, _)
sum_len(m, S) ==
    IF S = {} THEN 0
    ELSE LET k == CHOOSE x \in S : TRUE
         IN  Len(m[k]) + sum_len(m, S \ {k})

----------------------------------------------------------------------------
(* Converter: process_file                                                  *)

fpath == file_list[idx]
line == lines[line_no]
cur_byte == line[col + 1]

NoResult == [changes |-> <<>>, warnings |-> <<>>, modified |-> FALSE, skipped |-> "-"]
\* the per-line setup without prev_byte = 0
ClsReset_keep_prev ==
    /\ in_line_comment' = FALSE
    /\ in_string' = FALSE
    /\ escape_next' = FALSE
    /\ prev_byte' = prev_byte

\* the per-line setup: in_line_comment, in_string, escape_next, prev_byte
ClsReset ==
    /\ in_line_comment' = FALSE
    /\ in_string' = FALSE
    /\ escape_next' = FALSE
    /\ prev_byte' = 0
LocalsReset ==
    /\ data' = <<>>
    /\ lines' = <<>>
    /\ line_no' = 0
    /\ col' = 0
    /\ new_line' = <<>>
    /\ new_lines' = <<>>
    /\ changes' = <<>>
    /\ warnings' = <<>>
    /\ in_block_comment' = FALSE
    /\ ClsReset

\* with open(fpath, 'rb') as f: data = f.read()
Open ==
    /\ tool = "fix" /\ pc = "loop" /\ idx <= Len(file_list)
    /\ data' = fs[fpath]
    /\ pc' = "opened"
    /\ UNCHANGED <<tool, fs, unreadable, pass, first, argVars, mainVars, lines,
                   line_no, col, new_line, new_lines, changes, warnings, clsVars,
                   result, scanVars, verifyVars>>

SkipClean ==
    /\ tool = "fix" /\ pc = "opened"
    /\ ~has_non_ascii(data)
    /\ result' = [changes |-> <<>>, warnings |-> <<>>, modified |-> FALSE,
                  skipped |-> "no non-ASCII bytes"]
    /\ pc' = "returned"
    /\ UNCHANGED <<tool, fs, unreadable, pass, first, argVars, mainVars, fileVars,
                   clsVars, scanVars, verifyVars>>

\* the valid UTF-8 return with the reason of the return above it
SkipUtf8_clean_reason ==
    /\ tool = "fix" /\ pc = "opened"
    /\ has_non_ascii(data)
    /\ is_valid_utf8(data)
    /\ result' = [changes |-> <<>>, warnings |-> <<>>, modified |-> FALSE,
                  skipped |-> "no non-ASCII bytes"]
    /\ pc' = "returned"
    /\ UNCHANGED <<tool, fs, unreadable, pass, first, argVars, mainVars, fileVars,
                   clsVars, scanVars, verifyVars>>

SkipUtf8 ==
    /\ tool = "fix" /\ pc = "opened"
    /\ has_non_ascii(data)
    /\ is_valid_utf8(data)
    /\ result' = [changes |-> <<>>, warnings |-> <<>>, modified |-> FALSE,
                  skipped |-> "already valid UTF-8"]
    /\ pc' = "returned"
    /\ UNCHANGED <<tool, fs, unreadable, pass, first, argVars, mainVars, fileVars,
                   clsVars, scanVars, verifyVars>>

\* Process as ISO-8859-1: the split, the lists, and the first line's setup
BeginScan ==
    /\ tool = "fix" /\ pc = "opened"
    /\ has_non_ascii(data)
    /\ ~is_valid_utf8(data)
    /\ lines' = split(data)
    /\ changes' = <<>>
    /\ warnings' = <<>>
    /\ new_lines' = <<>>
    /\ in_block_comment' = FALSE
    /\ line_no' = 1
    /\ new_line' = <<>>
    /\ ClsReset
    /\ col' = 0
    /\ pc' = "scan"
    /\ UNCHANGED <<tool, fs, unreadable, pass, first, argVars, mainVars, data,
                   result, scanVars, verifyVars>>

\* the chain with ';' starting a line comment inside a string too
ascii_step_semi_in_string(b, st) ==
    IF st.escape_next THEN [st EXCEPT !.escape_next = FALSE]
    ELSE IF st.in_block_comment
         THEN (IF st.prev_byte = BAR /\ b = HASH
               THEN [st EXCEPT !.in_block_comment = FALSE]
               ELSE st)
    ELSE IF st.in_line_comment THEN st
    ELSE IF b = BACKSLASH /\ st.in_string THEN [st EXCEPT !.escape_next = TRUE]
    ELSE IF b = DQUOTE /\ ~st.in_line_comment
         THEN [st EXCEPT !.in_string = ~st.in_string]
    ELSE IF b = SEMI THEN [st EXCEPT !.in_line_comment = TRUE]
    ELSE IF st.prev_byte = HASH /\ b = BAR /\ ~st.in_string
         THEN [st EXCEPT !.in_block_comment = TRUE]
    ELSE st

\* the chain with the closing marker read as '#' then '|'
ascii_step_close_swapped(b, st) ==
    IF st.escape_next THEN [st EXCEPT !.escape_next = FALSE]
    ELSE IF st.in_block_comment
         THEN (IF st.prev_byte = HASH /\ b = BAR
               THEN [st EXCEPT !.in_block_comment = FALSE]
               ELSE st)
    ELSE IF st.in_line_comment THEN st
    ELSE IF b = BACKSLASH /\ st.in_string THEN [st EXCEPT !.escape_next = TRUE]
    ELSE IF b = DQUOTE /\ ~st.in_line_comment
         THEN [st EXCEPT !.in_string = ~st.in_string]
    ELSE IF b = SEMI /\ ~st.in_string THEN [st EXCEPT !.in_line_comment = TRUE]
    ELSE IF st.prev_byte = HASH /\ b = BAR /\ ~st.in_string
         THEN [st EXCEPT !.in_block_comment = TRUE]
    ELSE st

\* the chain with '#|' opening a block comment inside a string too
ascii_step_block_in_string(b, st) ==
    IF st.escape_next THEN [st EXCEPT !.escape_next = FALSE]
    ELSE IF st.in_block_comment
         THEN (IF st.prev_byte = BAR /\ b = HASH
               THEN [st EXCEPT !.in_block_comment = FALSE]
               ELSE st)
    ELSE IF st.in_line_comment THEN st
    ELSE IF b = BACKSLASH /\ st.in_string THEN [st EXCEPT !.escape_next = TRUE]
    ELSE IF b = DQUOTE /\ ~st.in_line_comment
         THEN [st EXCEPT !.in_string = ~st.in_string]
    ELSE IF b = SEMI /\ ~st.in_string THEN [st EXCEPT !.in_line_comment = TRUE]
    ELSE IF st.prev_byte = HASH /\ b = BAR
         THEN [st EXCEPT !.in_block_comment = TRUE]
    ELSE st

\* The if/elif chain of an ASCII byte b: the classifier's next state
ascii_step(b, st) ==
    IF st.escape_next THEN [st EXCEPT !.escape_next = FALSE]
    ELSE IF st.in_block_comment
         THEN (IF st.prev_byte = BAR /\ b = HASH
               THEN [st EXCEPT !.in_block_comment = FALSE]
               ELSE st)
    ELSE IF st.in_line_comment THEN st
    ELSE IF b = BACKSLASH /\ st.in_string THEN [st EXCEPT !.escape_next = TRUE]
    ELSE IF b = DQUOTE /\ ~st.in_line_comment
         THEN [st EXCEPT !.in_string = ~st.in_string]
    ELSE IF b = SEMI /\ ~st.in_string THEN [st EXCEPT !.in_line_comment = TRUE]
    ELSE IF st.prev_byte = HASH /\ b = BAR /\ ~st.in_string
         THEN [st EXCEPT !.in_block_comment = TRUE]
    ELSE st

cls_state == [in_block_comment |-> in_block_comment,
              in_line_comment |-> in_line_comment,
              in_string |-> in_string,
              escape_next |-> escape_next,
              prev_byte |-> prev_byte]

\* if b <= 127: ... new_line.append(b); prev_byte = b
StepAscii ==
    /\ tool = "fix" /\ pc = "scan" /\ col < Len(line)
    /\ cur_byte <= ASCII_MAX
    /\ LET st == ascii_step(cur_byte, cls_state)
       IN  /\ in_block_comment' = st.in_block_comment
           /\ in_line_comment' = st.in_line_comment
           /\ in_string' = st.in_string
           /\ escape_next' = st.escape_next
    /\ new_line' = Append(new_line, cur_byte)
    /\ prev_byte' = cur_byte
    /\ col' = col + 1
    /\ UNCHANGED <<tool, fs, unreadable, pc, pass, first, argVars, mainVars, data,
                   lines, line_no, new_lines, changes, warnings, result,
                   scanVars, verifyVars>>

\* a test of in_line_comment alone, block comments forgotten
in_line_comment_only == in_line_comment

\* if in_line_comment or in_block_comment
in_comment == in_line_comment \/ in_block_comment

\* the byte appended as it is, not encoded
converted_raw(b) == <<b>>

\* the bytes written for a non-ASCII byte in a comment
converted(b) == utf8_encode(chr(b))

\* the record with the column taken in the line being built
change_record_new_col(ln, c, b) ==
    [line |-> ln, col |-> Len(new_line) + 1, byte |-> hex(b), char |-> chr(b)]

change_record(ln, c, b) ==
    [line |-> ln, col |-> c + 1, byte |-> hex(b), char |-> chr(b)]

REASON == <<"non-ASCII in code", " (not in comment)">>

warning_record(ln, c, b, l) ==
    [line |-> ln, col |-> c + 1, byte |-> hex(b), char |-> chr(b),
     context |-> context_of(l), reason |-> REASON]

\* else: non-ASCII byte, in_line_comment or in_block_comment
StepConvert ==
    /\ tool = "fix" /\ pc = "scan" /\ col < Len(line)
    /\ cur_byte > ASCII_MAX
    /\ in_comment
    /\ new_line' = new_line \o converted(cur_byte)
    /\ changes' = Append(changes, change_record(line_no, col, cur_byte))
    /\ prev_byte' = cur_byte
    /\ col' = col + 1
    /\ UNCHANGED <<tool, fs, unreadable, pc, pass, first, argVars, mainVars, data,
                   lines, line_no, new_lines, warnings, in_block_comment,
                   in_line_comment, in_string, escape_next, result, scanVars,
                   verifyVars>>

\* the warning branch with the pending escape used up by the byte
StepWarn_clears_escape ==
    /\ tool = "fix" /\ pc = "scan" /\ col < Len(line)
    /\ cur_byte > ASCII_MAX
    /\ ~in_comment
    /\ new_line' = Append(new_line, cur_byte)
    /\ warnings' = Append(warnings, warning_record(line_no, col, cur_byte, line))
    /\ prev_byte' = cur_byte
    /\ escape_next' = FALSE
    /\ col' = col + 1
    /\ UNCHANGED <<tool, fs, unreadable, pc, pass, first, argVars, mainVars, data,
                   lines, line_no, new_lines, changes, in_block_comment,
                   in_line_comment, in_string, result, scanVars, verifyVars>>

\* else: non-ASCII in code, leave as-is, warn
StepWarn ==
    /\ tool = "fix" /\ pc = "scan" /\ col < Len(line)
    /\ cur_byte > ASCII_MAX
    /\ ~in_comment
    /\ new_line' = Append(new_line, cur_byte)
    /\ warnings' = Append(warnings, warning_record(line_no, col, cur_byte, line))
    /\ prev_byte' = cur_byte
    /\ col' = col + 1
    /\ UNCHANGED <<tool, fs, unreadable, pc, pass, first, argVars, mainVars, data,
                   lines, line_no, new_lines, changes, in_block_comment,
                   in_line_comment, in_string, escape_next, result, scanVars,
                   verifyVars>>

\* new_lines.append(bytes(new_line)), then the next line's setup
NextLine ==
    /\ tool = "fix" /\ pc = "scan" /\ col = Len(line)
    /\ line_no < Len(lines)
    /\ new_lines' = Append(new_lines, new_line)
    /\ line_no' = line_no + 1
    /\ new_line' = <<>>
    /\ ClsReset
    /\ col' = 0
    /\ UNCHANGED <<tool, fs, unreadable, pc, pass, first, argVars, mainVars, data,
                   lines, changes, warnings, in_block_comment, result, scanVars,
                   verifyVars>>

\* a write that does not look at dry_run
write_back_always(modified, dry) == modified

\* if modified and not dry_run: the file is written
write_back(modified, dry) == modified /\ ~dry

\* the last line's append, modified, the write and the return
Finish ==
    /\ tool = "fix" /\ pc = "scan" /\ col = Len(line)
    /\ line_no = Len(lines)
    /\ new_lines' = Append(new_lines, new_line)
    /\ LET modified == Len(changes) > 0
       IN  /\ fs' = IF write_back(modified, dry_run)
                    THEN [fs EXCEPT ![fpath] = join(new_lines')]
                    ELSE fs
           /\ result' = [changes |-> changes, warnings |-> warnings,
                         modified |-> modified, skipped |-> None]
    /\ pc' = "returned"
    /\ UNCHANGED <<tool, unreadable, pass, first, argVars, mainVars, data, lines,
                   line_no, col, new_line, changes, warnings, clsVars, scanVars,
                   verifyVars>>

----------------------------------------------------------------------------
(* Scanner: scan_file                                                       *)

\* data[:i].count(b'\n'), i a 0-based offset
count_lf(d, i) == Cardinality({j \in 1..i : d[j] = LF})

\* data[:i].rfind(b'\n'): the 0-based offset of the last newline before
\* offset i, -1 if there is none
rfind_lf(d, i) ==
    LET S == {j \in 0..(i - 1) : d[j + 1] = LF}
    IN  IF S = {} THEN -1 ELSE CHOOSE j \in S : \A k \in S : k <= j

\* data.find(b'\n', i), with -1 replaced by len(data)
line_end_of(d, i) ==
    LET S == {j \in i..(Len(d) - 1) : d[j + 1] = LF}
    IN  IF S = {} THEN Len(d) ELSE CHOOSE j \in S : \A k \in S : j <= k

\* data[line_start:line_end].decode('iso-8859-1').strip()
scan_context(d, i) ==
    LET line_start == rfind_lf(d, i) + 1
        line_end == line_end_of(d, i)
    IN  strip([k \in 1..(line_end - line_start) |-> chr(d[line_start + k])])

\* the hit with a 1-based col
hit_record_col1(d, i) ==
    [line |-> count_lf(d, i) + 1,
     col |-> i - rfind_lf(d, i),
     byte |-> d[i + 1],
     hex |-> hex(d[i + 1]),
     char |-> chr(d[i + 1]),
     context |-> scan_context(d, i)]

hit_record(d, i) ==
    [line |-> count_lf(d, i) + 1,
     col |-> i - rfind_lf(d, i) - 1,
     byte |-> d[i + 1],
     hex |-> hex(d[i + 1]),
     char |-> chr(d[i + 1]),
     context |-> scan_context(d, i)]

RECURSIVE scan_from(_, _, _)
scan_from(d, i, hits) ==
    IF i >= Len(d) THEN hits
    ELSE IF d[i + 1] > ASCII_MAX
         THEN scan_from(d, i + 1, Append(hits, hit_record(d, i)))
    ELSE scan_from(d, i + 1, hits)

scan_file(d) == scan_from(d, 0, <<>>)

\* the 'results' keys of the Scanner's report on a tree
scan_report_keys(tree) == {p \in glob(tree) : Len(scan_file(tree[p])) > 0}

----------------------------------------------------------------------------
(* Verifier: verify_file                                                    *)

\* (data[k] & 0xC0) == 0x80
is_continuation(b) == (b \div 64) = 2

\* while start > 0 and (data[start] & 0xC0) == 0x80: start -= 1
RECURSIVE back_up(_, _)
back_up(d, start) ==
    IF start > 0 /\ is_continuation(d[start + 1]) THEN back_up(d, start - 1)
    ELSE start

\* while end < len(data) and (data[end] & 0xC0) == 0x80: end += 1
RECURSIVE run_end(_, _)
run_end(d, end) ==
    IF end < Len(d) /\ is_continuation(d[end + 1]) THEN run_end(d, end + 1)
    ELSE end

problem_record(d, i) ==
    [line |-> count_lf(d, i) + 1,
     col |-> i - rfind_lf(d, i) - 1,
     byte |-> hex(d[i + 1]),
     char_iso |-> chr(d[i + 1]),
     context |-> scan_context(d, i)]

\* the body of "if b > 127": does offset i get a problem record
is_reported(d, i) ==
    LET start == back_up(d, i)
        end == run_end(d, start + 1)
    IN  ~is_valid_utf8(SubSeq(d, start + 1, end)) /\ i = start

RECURSIVE verify_from(_, _, _)
verify_from(d, i, problems) ==
    IF i >= Len(d) THEN problems
    ELSE IF d[i + 1] > ASCII_MAX /\ is_reported(d, i)
         THEN verify_from(d, i + 1, Append(problems, problem_record(d, i)))
    ELSE verify_from(d, i + 1, problems)

verify_file(d) ==
    IF is_valid_utf8(d) THEN <<>> ELSE verify_from(d, 0, <<>>)

----------------------------------------------------------------------------
(* Converter: main                                                          *)

NoReport ==
    [dry_run |-> FALSE, files_processed |-> 0, skipped_utf8 |-> 0,
     skipped_clean |-> 0, files_changed |-> 0, total_replacements |-> 0,
     total_warnings |-> 0, changes |-> EmptyMap, warnings |-> EmptyMap]

\* args, "Build file list", "Apply exclusions", the empty maps and counters
MainStart ==
    /\ tool = "fix" /\ pc = "start"
    /\ LET file_set == IF report.given THEN report.keys ELSE glob(fs)
       IN  file_list' = sorted(apply_exclusions(file_set, include_excluded))
    /\ idx' = 1
    /\ all_changes' = EmptyMap
    /\ all_warnings' = EmptyMap
    /\ skipped_utf8' = 0
    /\ skipped_clean' = 0
    /\ pc' = "loop"
    /\ UNCHANGED <<tool, fs, unreadable, pass, first, argVars, report_out, fileVars,
                   clsVars, result, scanVars, verifyVars>>

\* the loop body after process_file returned
MainRecord ==
    /\ tool = "fix" /\ pc = "returned"
    /\ IF result.skipped = "already valid UTF-8"
       THEN /\ skipped_utf8' = skipped_utf8 + 1
            /\ UNCHANGED <<skipped_clean, all_changes, all_warnings>>
       ELSE IF result.skipped = "no non-ASCII bytes"
       THEN /\ skipped_clean' = skipped_clean + 1
            /\ UNCHANGED <<skipped_utf8, all_changes, all_warnings>>
       ELSE /\ all_changes' = IF Len(result.changes) > 0
                              THEN put(all_changes, fpath, result.changes)
                              ELSE all_changes
            /\ all_warnings' = IF Len(result.warnings) > 0
                               THEN put(all_warnings, fpath, result.warnings)
                               ELSE all_warnings
            /\ UNCHANGED <<skipped_utf8, skipped_clean>>
    /\ idx' = idx + 1
    /\ result' = NoResult
    /\ LocalsReset
    /\ pc' = "loop"
    /\ UNCHANGED <<tool, fs, unreadable, pass, first, argVars, file_list,
                   report_out, scanVars, verifyVars>>

\* "Summary" and report_out
Summary ==
    /\ tool = "fix" /\ pc = "loop" /\ idx > Len(file_list)
    /\ report_out' =
          [dry_run |-> dry_run,
           files_processed |-> Len(file_list),
           skipped_utf8 |-> skipped_utf8,
           skipped_clean |-> skipped_clean,
           files_changed |-> Cardinality(DOMAIN all_changes),
           total_replacements |-> sum_len(all_changes, DOMAIN all_changes),
           total_warnings |-> sum_len(all_warnings, DOMAIN all_warnings),
           changes |-> all_changes,
           warnings |-> all_warnings]
    /\ pc' = "done"
    /\ UNCHANGED <<tool, fs, unreadable, pass, first, argVars, file_list, idx,
                   all_changes, all_warnings, skipped_utf8, skipped_clean,
                   fileVars, clsVars, result, scanVars, verifyVars>>

\* The operator runs the Converter a second time on the tree the first run left.
Rerun ==
    /\ tool = "fix" /\ pc = "done" /\ pass = "first"
    /\ first' = [report |-> report_out, fs |-> fs]
    /\ pass' = "second"
    /\ dry_run' \in BOOLEAN
    /\ pc' = "start"
    /\ UNCHANGED <<tool, fs, unreadable, include_excluded, report, mainVars,
                   fileVars, clsVars, result, scanVars, verifyVars>>

----------------------------------------------------------------------------
(* Scanner: main                                                            *)

ScanStart ==
    /\ tool = "scan" /\ pc = "start"
    /\ file_list' = sorted(glob(fs))
    /\ idx' = 1
    /\ results' = EmptyMap
    /\ total_hits' = 0
    /\ pc' = "loop"
    /\ UNCHANGED <<tool, fs, unreadable, pass, first, argVars, all_changes,
                   all_warnings, skipped_utf8, skipped_clean, report_out,
                   fileVars, clsVars, result, verifyVars>>

\* the read error left uncaught: the scan ends there, with no report
ScanFileError_aborts ==
    /\ tool = "scan" /\ pc = "loop" /\ idx <= Len(file_list)
    /\ fpath \in unreadable
    /\ pc' = "aborted"
    /\ UNCHANGED <<tool, fs, unreadable, idx, pass, first, argVars, file_list,
                   all_changes, all_warnings, skipped_utf8, skipped_clean,
                   report_out, fileVars, clsVars, result, scanVars, verifyVars>>

\* except Exception as e: ... continue
ScanFileError ==
    /\ tool = "scan" /\ pc = "loop" /\ idx <= Len(file_list)
    /\ fpath \in unreadable
    /\ idx' = idx + 1
    /\ UNCHANGED <<tool, fs, unreadable, pc, pass, first, argVars, file_list,
                   all_changes, all_warnings, skipped_utf8, skipped_clean,
                   report_out, fileVars, clsVars, result, scanVars, verifyVars>>

ScanFile ==
    /\ tool = "scan" /\ pc = "loop" /\ idx <= Len(file_list)
    /\ fpath \notin unreadable
    /\ LET hits == scan_file(fs[fpath])
       IN  IF Len(hits) > 0
           THEN /\ results' = put(results, fpath, hits)
                /\ total_hits' = total_hits + Len(hits)
           ELSE UNCHANGED <<results, total_hits>>
    /\ idx' = idx + 1
    /\ UNCHANGED <<tool, fs, unreadable, pc, pass, first, argVars, file_list,
                   all_changes, all_warnings, skipped_utf8, skipped_clean,
                   report_out, fileVars, clsVars, result, verifyVars>>

scan_report ==
    [files_scanned |-> Len(file_list),
     files_with_non_ascii |-> Cardinality(DOMAIN results),
     total_non_ascii_bytes |-> total_hits,
     results |-> results]

ScanReport ==
    /\ tool = "scan" /\ pc = "loop" /\ idx > Len(file_list)
    /\ report_out' = scan_report
    /\ pc' = "done"
    /\ UNCHANGED <<tool, fs, unreadable, pass, first, argVars, file_list, idx,
                   all_changes, all_warnings, skipped_utf8, skipped_clean,
                   fileVars, clsVars, result, scanVars, verifyVars>>

----------------------------------------------------------------------------
(* Verifier: main                                                           *)

VerifyStart ==
    /\ tool = "verify" /\ pc = "start"
    /\ file_list' = sorted(glob(fs))
    /\ idx' = 1
    /\ ok_count' = 0
    /\ problem_files' = EmptyMap
    /\ pc' = "loop"
    /\ UNCHANGED <<tool, fs, unreadable, pass, first, argVars, all_changes,
                   all_warnings, skipped_utf8, skipped_clean, report_out,
                   fileVars, clsVars, result, scanVars, exit_code>>

VerifyFile ==
    /\ tool = "verify" /\ pc = "loop" /\ idx <= Len(file_list)
    /\ LET problems == verify_file(fs[fpath])
       IN  IF Len(problems) > 0
           THEN /\ problem_files' = put(problem_files, fpath, problems)
                /\ UNCHANGED ok_count
           ELSE /\ ok_count' = ok_count + 1
                /\ UNCHANGED problem_files
    /\ idx' = idx + 1
    /\ UNCHANGED <<tool, fs, unreadable, pc, pass, first, argVars, file_list,
                   all_changes, all_warnings, skipped_utf8, skipped_clean,
                   report_out, fileVars, clsVars, result, scanVars, exit_code>>

\* sys.exit(0 if not problem_files else 1)
VerifyExit ==
    /\ tool = "verify" /\ pc = "loop" /\ idx > Len(file_list)
    /\ exit_code' = IF DOMAIN problem_files = {} THEN 0 ELSE 1
    /\ pc' = "done"
    /\ UNCHANGED <<tool, fs, unreadable, pass, first, argVars, mainVars,
                   fileVars, clsVars, result, scanVars, ok_count, problem_files>>

----------------------------------------------------------------------------
(* specifications                                                           *)

NoArgReport == [given |-> FALSE, keys |-> {}]

Idle ==
    /\ pc = "start"
    /\ pass = "first"
    /\ first = [report |-> NoReport, fs |-> fs]
    /\ file_list = <<>> /\ idx = 0
    /\ all_changes = EmptyMap /\ all_warnings = EmptyMap
    /\ skipped_utf8 = 0 /\ skipped_clean = 0
    /\ report_out = NoReport
    /\ data = <<>> /\ lines = <<>> /\ line_no = 0 /\ col = 0
    /\ new_line = <<>> /\ new_lines = <<>>
    /\ in_block_comment = FALSE /\ in_line_comment = FALSE
    /\ in_string = FALSE /\ escape_next = FALSE /\ prev_byte = 0
    /\ changes = <<>> /\ warnings = <<>>
    /\ result = NoResult
    /\ results = EmptyMap /\ total_hits = 0
    /\ ok_count = 0 /\ problem_files = EmptyMap /\ exit_code = -1

ConverterInit(trees) ==
    /\ tool = "fix"
    /\ fs \in trees
    /\ unreadable = {}
    /\ dry_run \in BOOLEAN
    /\ Idle

\* The Converter on a tree of one file, every content up to MaxLen bytes.
Init ==
    /\ ConverterInit({<<a>> : a \in Contents(Bytes, MaxLen)})
    /\ include_excluded = FALSE
    /\ report = NoArgReport

FixNext ==
    \/ MainStart \/ Open \/ SkipClean \/ SkipUtf8 \/ BeginScan
    \/ StepAscii \/ StepConvert \/ StepWarn \/ NextLine \/ Finish
    \/ MainRecord \/ Summary \/ Rerun

Next == FixNext

Spec == Init /\ [][Next]_vars

\* The Converter on one file of two lines, each up to MaxLine bytes.
TwoLines ==
    {l1 \o <<LF>> \o l2 : l1 \in Contents(LineBytes, MaxLine),
                           l2 \in Contents(LineBytes, MaxLine)}
InitLines ==
    /\ ConverterInit({<<a>> : a \in TwoLines})
    /\ include_excluded = FALSE
    /\ report = NoArgReport

SpecLines == InitLines /\ [][Next]_vars

\* The Converter on one file that starts in code, in a string, after a
\* backslash in a string, in a line comment or in a block comment, and goes
\* on with up to MaxBody marker bytes, bytes > 127 and line ends.
MarkerFiles ==
    {pre \o body :
        pre \in {<<>>, <<DQUOTE>>, <<DQUOTE, BACKSLASH>>, <<SEMI>>, <<HASH, BAR>>},
        body \in Contents(MarkerBytes, MaxBody)}
InitMarker ==
    /\ ConverterInit({<<a>> : a \in MarkerFiles})
    /\ include_excluded = FALSE
    /\ report = NoArgReport

SpecMarker == InitMarker /\ [][Next]_vars

\* The Converter on one file that holds one byte of any value, after the
\* start of a string, of a line comment or of a block comment, or at the
\* start of the file, and before the end of the file or one more byte.
OneByteFiles ==
    {pre \o <<b>> \o suf :
        pre \in {<<>>, <<DQUOTE>>, <<SEMI>>, <<HASH, BAR>>},
        b \in AllBytes,
        suf \in {<<>>, <<169>>}}
InitByte ==
    /\ ConverterInit({<<a>> : a \in OneByteFiles})
    /\ include_excluded = FALSE
    /\ report = NoArgReport

SpecByte == InitByte /\ [][Next]_vars

\* The Converter on the tree of PathNames: three source files of at most
\* MaxTreeBytes bytes together, and a file that is no source file.
Splits == {l \in [1..3 -> 0..MaxTreeBytes] : l[1] + l[2] + l[3] <= MaxTreeBytes}
Trees ==
    UNION {{<<a, b, c, <<169>>>> : a \in [1..l[1] -> TreeBytes],
                                   b \in [1..l[2] -> TreeBytes],
                                   c \in [1..l[3] -> TreeBytes]} : l \in Splits}
InitTree ==
    /\ ConverterInit(Trees)
    /\ include_excluded \in BOOLEAN
    /\ report \in {NoArgReport, [given |-> TRUE, keys |-> scan_report_keys(fs)]}

SpecTree == InitTree /\ [][Next]_vars

\* The Scanner on a tree of two source files, either of which may be unreadable.
InitScan ==
    /\ tool = "scan"
    /\ fs \in {<<a, b>> : a \in Contents(ScanBytes, MaxScanLen),
                          b \in Contents(ScanBytes, MaxScanLen)}
    /\ unreadable \in SUBSET {1, 2}
    /\ dry_run = FALSE /\ include_excluded = FALSE /\ report = NoArgReport
    /\ Idle

ScanNext == ScanStart \/ ScanFileError \/ ScanFile \/ ScanReport

SpecScan == InitScan /\ [][ScanNext]_vars

\* The Verifier on a tree of two source files.
InitVerify ==
    /\ tool = "verify"
    /\ fs \in {<<a, b>> : a \in Contents(VerifyBytes, MaxVerifyLen),
                          b \in Contents(VerifyBytes, MaxVerifyLen)}
    /\ unreadable = {}
    /\ dry_run = FALSE /\ include_excluded = FALSE /\ report = NoArgReport
    /\ Idle

VerifyNext == VerifyStart \/ VerifyFile \/ VerifyExit

SpecVerify == InitVerify /\ [][VerifyNext]_vars

----------------------------------------------------------------------------
(* properties                                                               *)

NonAsciiCount(d) == Cardinality({i \in DOMAIN d : d[i] > ASCII_MAX})
LfCount(d) == Cardinality({i \in DOMAIN d : d[i] = LF})
TwoByteUtf8(b) == <<192 + (b \div 64), 128 + (b % 64)>>

\* The classifier read as one pass over the bytes of the whole file: a
\* newline clears everything but in_block_comment.
StartState == [in_block_comment |-> FALSE, in_line_comment |-> FALSE,
               in_string |-> FALSE, escape_next |-> FALSE, prev_byte |-> 0]
StreamStep(b, st) ==
    IF b = LF
    THEN [st EXCEPT !.in_line_comment = FALSE, !.in_string = FALSE,
                    !.escape_next = FALSE, !.prev_byte = 0]
    ELSE IF b <= ASCII_MAX THEN [ascii_step(b, st) EXCEPT !.prev_byte = b]
    ELSE [st EXCEPT !.prev_byte = b]
RECURSIVE StateBefore(_, _)
StateBefore(d, i) ==
    IF i = 1 THEN StartState ELSE StreamStep(d[i - 1], StateBefore(d, i - 1))
InCommentAt(d, i) ==
    LET st == StateBefore(d, i) IN st.in_line_comment \/ st.in_block_comment
RECURSIVE ExpectedUpTo(_, _)
ExpectedUpTo(d, i) ==
    IF i = 0 THEN <<>>
    ELSE ExpectedUpTo(d, i - 1) \o
         (IF d[i] > ASCII_MAX /\ InCommentAt(d, i) THEN TwoByteUtf8(d[i])
          ELSE <<d[i]>>)
Expected(d) == ExpectedUpTo(d, Len(d))

\* C1: a second run (not dry-run) of the Converter on the tree a first run
\* (not dry-run) left makes no change: zero replacements, the same bytes.
C1_Idempotent ==
    (tool = "fix" /\ pass = "second" /\ pc = "done"
        /\ ~first.report.dry_run /\ ~dry_run)
    => (report_out.total_replacements = 0 /\ fs = first.fs)

\* C2: for a file processed as ISO-8859-1 the new content is the original
\* with exactly the non-ASCII bytes in a comment replaced by their two UTF-8
\* bytes, every other byte kept in place, and as many newlines as before; it
\* is what is written when the file is written.
C2_OnlyCommentBytesRewritten ==
    (tool = "fix" /\ pc = "returned" /\ result.skipped = None)
    => /\ join(new_lines) = Expected(data)
       /\ LfCount(join(new_lines)) = LfCount(data)
       /\ Len(new_lines) = LfCount(data) + 1
       /\ (result.modified /\ ~dry_run) => fs[fpath] = Expected(data)

\* C2 witness: a file of two lines with a warning and a change was written.
C2_Witness ==
    /\ tool = "fix" /\ pc = "returned" /\ result.skipped = None /\ ~dry_run
    /\ Len(result.changes) > 0 /\ Len(result.warnings) > 0
    /\ Len(lines) > 1
    /\ fs[fpath] # data

\* C3: the Verifier exits with 0 exactly when every examined file is valid
\* UTF-8.
C3_ExitZeroIffAllValid ==
    (tool = "verify" /\ pc = "done")
    => ((exit_code = 0) <=> (\A p \in Range(file_list) : is_valid_utf8(fs[p])))

\* The strict UTF-8 decoding of one two-byte sequence, and the ISO-8859-1
\* byte of a code point; -1 where there is none.
DecodeTwoByteUtf8(w) ==
    IF Len(w) = 2 /\ w[1] \in 194..223 /\ w[2] \in 128..191
    THEN (w[1] - 192) * 64 + (w[2] - 128)
    ELSE -1
Latin1Byte(cp) == IF cp \in 0..255 THEN cp ELSE -1

\* C4: each converted byte b is written as the two bytes 0xC0 | (b >> 6),
\* 0x80 | (b & 0x3F), and these decode as UTF-8 to the code point whose
\* ISO-8859-1 byte is b.
C4_RoundTrip ==
    [][(tool = "fix" /\ pc = "scan" /\ Len(changes') = Len(changes) + 1)
       => LET b == cur_byte
              w == SubSeq(new_line', Len(new_line) + 1, Len(new_line'))
          IN  /\ b \in 128..255
              /\ w = TwoByteUtf8(b)
              /\ Latin1Byte(DecodeTwoByteUtf8(w)) = b
              /\ changes'[Len(changes')].char = b]_vars

\* C4 witness: the byte 0xFF of a line comment was converted to 0xC3 0xBF.
C4_Witness ==
    /\ tool = "fix" /\ pc = "returned" /\ Len(result.changes) = 1
    /\ result.changes[1].char = 255
    /\ data[1] = SEMI
    /\ join(new_lines) = <<SEMI, 195, 191>>

Clean(d) == ~has_non_ascii(d)
AlreadyUtf8(d) == has_non_ascii(d) /\ Utf8ValidFrom(d, 1)
\* the files main has got a result for and recorded, in this run
Recorded == {file_list[k] : k \in 1..(idx - 1)}

\* C5: a file with no byte > 127, or that is valid UTF-8, is skipped: no
\* changes, no warnings, the matching reason, never written, counted by main
\* in skipped_clean or skipped_utf8 and given no entry in either map.
C5_SkippedFilesUntouched ==
    (tool = "fix" /\ pc \in {"loop", "opened", "scan", "returned", "done"})
    => /\ (pc = "returned" /\ Clean(data))
          => result = [changes |-> <<>>, warnings |-> <<>>, modified |-> FALSE,
                       skipped |-> "no non-ASCII bytes"]
       /\ (pc = "returned" /\ AlreadyUtf8(data))
          => result = [changes |-> <<>>, warnings |-> <<>>, modified |-> FALSE,
                       skipped |-> "already valid UTF-8"]
       /\ \A p \in Range(file_list) :
            (Clean(first.fs[p]) \/ AlreadyUtf8(first.fs[p]))
            => /\ fs[p] = first.fs[p]
               /\ p \notin DOMAIN all_changes
               /\ p \notin DOMAIN all_warnings
       /\ skipped_clean = Cardinality({p \in Recorded : Clean(first.fs[p])})
       /\ skipped_utf8 = Cardinality({p \in Recorded : AlreadyUtf8(first.fs[p])})

\* C5 witness: a run ended with a file skipped as clean, one skipped as
\* UTF-8 and one that got warnings.
C5_Witness ==
    /\ tool = "fix" /\ pc = "done"
    /\ report_out.skipped_clean >= 1 /\ report_out.skipped_utf8 >= 1
    /\ DOMAIN report_out.warnings # {}

\* C6: a file is written exactly when a byte of it was converted and
\* dry-run is off (so never under --dry-run, never with warnings only), and
\* a run after a dry run reports the changes and warnings the dry run
\* reported.
C6_WriteIffChangedAndNotDry ==
    [][tool = "fix"
       => /\ (fs' # fs) <=> (pc = "scan" /\ pc' = "returned"
                              /\ Len(changes) > 0 /\ ~dry_run)
          /\ (fs' # fs) => (\A p \in DOMAIN fs : p # fpath => fs'[p] = fs[p])
          /\ (pc = "loop" /\ pc' = "done" /\ pass = "second"
                /\ first.report.dry_run)
             => /\ report_out'.changes = first.report.changes
                /\ report_out'.warnings = first.report.warnings]_vars

\* C6 witness: after a dry run that reported changes and warnings, a run
\* without --dry-run ended and the file is changed.
C6_Witness ==
    /\ tool = "fix" /\ pass = "second" /\ pc = "done"
    /\ first.report.dry_run /\ ~dry_run
    /\ first.report.total_replacements > 0 /\ first.report.total_warnings > 0
    /\ fs # first.fs

UnderDir(p, dir) ==
    /\ Len(PathNames[p].dir) >= Len(dir)
    /\ \A i \in DOMAIN dir : PathNames[p].dir[i] = dir[i]

\* C7: without --include-excluded no file under books/quicklisp/ or under
\* books/projects/python/ is processed.
C7_BothDirectoriesExcluded ==
    (tool = "fix" /\ ~include_excluded /\ pc \in {"opened", "scan", "returned"})
    => /\ ~UnderDir(fpath, <<"books", "quicklisp">>)
       /\ ~UnderDir(fpath, <<"books", "projects", "python">>)

Before(r1, r2) == r1.line < r2.line \/ (r1.line = r2.line /\ r1.col < r2.col)
InOrder(rs) == \A i, j \in DOMAIN rs : i < j => Before(rs[i], rs[j])

\* C8: in a file processed as ISO-8859-1 every byte > 127 yields exactly one
\* record: a change when the classifier is in a line or block comment,
\* otherwise a warning that cites "non-ASCII in code" with the byte kept; the
\* two lists together have as many records as the file has bytes > 127, each
\* in file order.
C8_OneRecordPerNonAsciiByte ==
    [][(tool = "fix" /\ pc = "scan")
       => /\ (pc' = "scan" /\ col' = col + 1 /\ cur_byte > ASCII_MAX)
             => IF in_line_comment \/ in_block_comment
                THEN /\ Len(changes') = Len(changes) + 1
                     /\ SubSeq(changes', 1, Len(changes)) = changes
                     /\ changes'[Len(changes')].line = line_no
                     /\ changes'[Len(changes')].char = cur_byte
                     /\ warnings' = warnings
                     /\ new_line' = new_line \o TwoByteUtf8(cur_byte)
                ELSE /\ Len(warnings') = Len(warnings) + 1
                     /\ SubSeq(warnings', 1, Len(warnings)) = warnings
                     /\ warnings'[Len(warnings')].line = line_no
                     /\ warnings'[Len(warnings')].char = cur_byte
                     /\ warnings'[Len(warnings')].reason[1] = "non-ASCII in code"
                     /\ changes' = changes
                     /\ new_line' = Append(new_line, cur_byte)
          /\ (pc' = "scan" /\ col' = col + 1 /\ cur_byte <= ASCII_MAX)
             => (changes' = changes /\ warnings' = warnings)
          /\ (pc' = "returned")
             => /\ Len(result'.changes) + Len(result'.warnings) = NonAsciiCount(data)
                /\ InOrder(result'.changes)
                /\ InOrder(result'.warnings)]_vars

\* C8 witness: a file gave a warning and then a change inside a block comment.
C8_Witness ==
    /\ tool = "fix" /\ pc = "returned"
    /\ Len(result.changes) >= 1 /\ Len(result.warnings) >= 1
    /\ Before(result.warnings[1], result.changes[1])
    /\ \E i \in DOMAIN data : data[i] = BAR
    /\ \A i \in DOMAIN data : data[i] # SEMI

\* the 1-based positions of the bytes > 127 of d, ascending
RECURSIVE NonAsciiPositions(_, _)
NonAsciiPositions(d, i) ==
    IF i = 0 THEN <<>>
    ELSE IF d[i] > ASCII_MAX THEN Append(NonAsciiPositions(d, i - 1), i)
    ELSE NonAsciiPositions(d, i - 1)
\* the 1-based position of the first byte of the line that holds position i
LineStart(d, i) ==
    IF \E j \in 1..(i - 1) : d[j] = LF
    THEN 1 + CHOOSE j \in 1..(i - 1) : d[j] = LF /\ \A k \in (j + 1)..(i - 1) : d[k] # LF
    ELSE 1

\* C9: scan_file gives one hit per byte > 127, in file order; its line is 1
\* plus the number of newlines before the byte and its col the 0-based
\* offset of the byte in its line.
C9_ScanHits ==
    (tool = "scan" /\ pc \in {"loop", "done"})
    => \A k \in 1..(idx - 1) :
          LET p == file_list[k]
              d == fs[p]
              pos == NonAsciiPositions(d, Len(d))
          IN  IF p \in unreadable \/ Len(pos) = 0
              THEN p \notin DOMAIN results
              ELSE /\ p \in DOMAIN results
                   /\ Len(results[p]) = Len(pos)
                   /\ \A n \in DOMAIN pos :
                        LET h == results[p][n]
                            i == pos[n]
                        IN  /\ h.byte = d[i]
                            /\ h.line = 1 + Cardinality({j \in 1..(i - 1) : d[j] = LF})
                            /\ h.col = i - LineStart(d, i)
                            /\ split(d)[h.line][h.col + 1] = d[i]
                            /\ (LfCount(SubSeq(d, 1, i)) = 0) => h.col = i - 1

\* C9 witness: one scanned file has a hit on line 1 and a hit on line 2,
\* both at col 0, and another has its hit on line 2 at col 1.
C9_Witness ==
    /\ tool = "scan" /\ pc = "done"
    /\ \E p \in DOMAIN results :
          /\ Len(results[p]) = 2
          /\ results[p][1].line = 1 /\ results[p][1].col = 0
          /\ results[p][2].line = 2 /\ results[p][2].col = 0
    /\ \E p \in DOMAIN results :
          /\ Len(results[p]) = 1
          /\ results[p][1].line = 2 /\ results[p][1].col = 1

ByteStep == tool = "fix" /\ pc = "scan" /\ pc' = "scan" /\ line_no' = line_no
                /\ col' = col + 1

\* C11: in a string neither ';' nor '#|' starts a comment: every byte but an
\* unescaped '"' leaves in_string set and both comment flags clear, and a
\* byte > 127 met in the string is kept as it is and reported as a warning.
C11_NoCommentStartsInString ==
    [][(ByteStep /\ in_string)
       => /\ ~in_line_comment' /\ ~in_block_comment'
          /\ (cur_byte # DQUOTE \/ escape_next) => in_string'
          /\ (cur_byte > ASCII_MAX)
             => /\ new_line' = Append(new_line, cur_byte)
                /\ changes' = changes
                /\ Len(warnings') = Len(warnings) + 1
                /\ warnings'[Len(warnings')].line = line_no
                /\ warnings'[Len(warnings')].char = cur_byte]_vars

\* C11 witness: after '"#|' in one line a byte > 127 got a warning and the
\* string is still open.
C11_Witness ==
    /\ tool = "fix" /\ pc = "scan" /\ col = 4
    /\ SubSeq(line, 1, 3) = <<DQUOTE, HASH, BAR>>
    /\ line[4] > ASCII_MAX
    /\ in_string /\ ~in_block_comment /\ ~in_line_comment
    /\ Len(warnings) = 1 /\ Len(changes) = 0 /\ new_line = line

\* C12: in a string a backslash sets escape_next, and the byte right after
\* it, ASCII or not, is taken as it is and clears escape_next, the string
\* staying open; an unescaped '"' leaves the string.
C12_EscapeTakesOneByte ==
    [][(ByteStep /\ in_string)
       => /\ (~escape_next /\ cur_byte = BACKSLASH) => escape_next'
          /\ escape_next => (~escape_next' /\ in_string')
          /\ (~escape_next /\ cur_byte = DQUOTE) => ~in_string']_vars

\* no classifier flag is set: the state the spec calls code
InCode == ~in_string /\ ~in_line_comment /\ ~in_block_comment /\ ~escape_next

\* the byte consumed right before cur_byte, and the one before that, are the
\* bytes x and y of the line
After(y, x) == col >= 2 /\ line[col - 1] = y /\ line[col] = x

\* C13: a byte > 127 leaves in_string, in_line_comment, in_block_comment and
\* escape_next as they were, and a '#|' or '|#' whose first byte comes right
\* after a byte > 127 still opens, respectively closes, a block comment.
C13_NonAsciiKeepsState ==
    [][ByteStep
       => /\ (cur_byte > ASCII_MAX)
             => /\ in_string' = in_string
                /\ in_line_comment' = in_line_comment
                /\ in_block_comment' = in_block_comment
                /\ escape_next' = escape_next
          /\ (/\ \E y \in 128..255 : After(y, HASH)
              /\ cur_byte = BAR /\ InCode)
             => in_block_comment'
          /\ (/\ \E y \in 128..255 : After(y, BAR)
              /\ cur_byte = HASH /\ in_block_comment)
             => InCode']_vars

\* C13 witness: in '#|', 0xA9, '|#', 0xA9 the first 0xA9 was converted in the
\* block comment, '|#' after it closed the comment, and the last 0xA9 got a
\* warning.
C13_Witness ==
    /\ tool = "fix" /\ pc = "scan" /\ line_no = 1 /\ col = 6
    /\ line = <<HASH, BAR, 169, BAR, HASH, 169>>
    /\ InCode
    /\ Len(changes) = 1 /\ changes[1].col = 3
    /\ Len(warnings) = 1 /\ warnings[1].col = 6

\* the first n bytes of the file's first line are p, and the step consumes
\* the last of them
Consumes(p) ==
    /\ ByteStep /\ line_no = 1 /\ col = Len(p) - 1
    /\ Len(line) >= Len(p) /\ SubSeq(line, 1, Len(p)) = p

\* C18: block comment markers share a byte, only the previous byte being
\* matched: in a block comment a '#' right after '|' closes it to code, in
\* code a '|' right after '#' opens one, whatever the '|' or '#' did
\* before; so '#|#' in code ends in code, '|#|' within a block comment ends
\* in the block comment, and any other byte in a block comment leaves it
\* open (no nesting depth is kept: one '|#' closes it).
C18_MarkersShareAByte ==
    [][/\ (ByteStep /\ in_block_comment /\ col >= 1 /\ line[col] = BAR
             /\ cur_byte = HASH)
          => InCode'
       /\ (ByteStep /\ InCode /\ col >= 1 /\ line[col] = HASH
             /\ cur_byte = BAR)
          => (in_block_comment' /\ ~in_string' /\ ~in_line_comment')
       /\ (ByteStep /\ in_block_comment
             /\ ~(col >= 1 /\ line[col] = BAR /\ cur_byte = HASH))
          => in_block_comment'
       /\ Consumes(<<HASH, BAR, HASH>>) => (in_block_comment /\ InCode')
       /\ Consumes(<<HASH, BAR, BAR, HASH>>) => (in_block_comment /\ InCode')
       /\ Consumes(<<HASH, BAR, BAR, HASH, BAR>>)
          => (InCode /\ in_block_comment')
       /\ Consumes(<<HASH, BAR, HASH, BAR, BAR>>) => in_block_comment
       /\ Consumes(<<HASH, BAR, HASH, BAR, BAR, HASH>>)
          => (in_block_comment /\ InCode')]_vars

\* C18 witness: in '#|', '|#|', 0xA9 the '|#|' closed and reopened the block
\* comment, so the 0xA9 was converted.
C18_Witness ==
    /\ tool = "fix" /\ pc = "scan" /\ line_no = 1 /\ col = 6
    /\ line = <<HASH, BAR, BAR, HASH, BAR, 169>>
    /\ in_block_comment /\ ~in_string /\ ~in_line_comment
    /\ Len(changes) = 1 /\ changes[1].col = 6 /\ warnings = <<>>

\* the <<line, col, byte>> the Scanner reports for the bytes > 127 of d, the
\* column moved by k
ScannerPlaces(d, k) ==
    LET hits == scan_file(d)
    IN  {<<hits[n].line, hits[n].col + k, hits[n].byte>> : n \in DOMAIN hits}
\* the <<line, col, byte>> of the records of the list recs
Places(recs) == {<<recs[n].line, recs[n].col, recs[n].char>> : n \in DOMAIN recs}

\* C14 as stated: the change and warning records of a file give the bytes
\* the line and the 0-based column that the Scanner's hits give them.
C14_SameColumnAsScanner ==
    (tool = "fix" /\ pc = "returned" /\ result.skipped = None)
    => Places(result.changes) \cup Places(result.warnings)
         = ScannerPlaces(data, 0)

\* C14, amended: the change and warning records of a file give each byte
\* > 127 the Scanner's 1-based line and a 1-based column, the Scanner's
\* 0-based column plus one, counted in the original line whatever bytes
\* before it on the line grew to two bytes; one record per byte.
C14_ScannerColumnPlusOne ==
    (tool = "fix" /\ pc = "returned" /\ result.skipped = None)
    => /\ Places(result.changes) \cup Places(result.warnings)
            = ScannerPlaces(data, 1)
       /\ Len(result.changes) + Len(result.warnings) = Len(scan_file(data))
       /\ \A n \in DOMAIN result.changes :
            LET r == result.changes[n]
            IN  r.col >= 1 /\ split(data)[r.line][r.col] = r.char
       /\ \A n \in DOMAIN result.warnings :
            LET r == result.warnings[n]
            IN  r.col >= 1 /\ split(data)[r.line][r.col] = r.char

\* C14 witness: a line comment with two bytes > 127 one after the other gave
\* two changes at columns 2 and 3, where the Scanner has columns 1 and 2.
C14_Witness ==
    /\ tool = "fix" /\ pc = "returned" /\ result.skipped = None
    /\ Len(result.changes) = 2
    /\ result.changes[1].line = result.changes[2].line
    /\ result.changes[1].col = 2 /\ result.changes[2].col = 3
    /\ Len(scan_file(data)) = 2
    /\ scan_file(data)[1].col = 1 /\ scan_file(data)[2].col = 2

\* the number of records in the map m of per-file lists
EntryCount(m) ==
    Cardinality(UNION {{<<p, n>> : n \in DOMAIN m[p]} : p \in DOMAIN m})

\* C15: a file the Scanner cannot read is passed over: it gets no entry in
\* results, every other file is still scanned (a file with bytes > 127 has
\* its entry whether it comes before or after the failed one), the run goes
\* on to the report, and the report's files_with_non_ascii and
\* total_non_ascii_bytes are the number of entries of results and the sum of
\* their hit counts.
C15_UnreadableFileSkipped ==
    (tool = "scan")
    => /\ pc \in {"start", "loop", "done"}
       /\ (pc \in {"loop", "done"})
          => /\ \A k \in 1..(idx - 1) :
                  LET p == file_list[k]
                  IN  IF p \in unreadable THEN p \notin DOMAIN results
                      ELSE (NonAsciiCount(fs[p]) > 0)
                           => /\ p \in DOMAIN results
                              /\ Len(results[p]) = NonAsciiCount(fs[p])
             /\ DOMAIN results \subseteq {file_list[k] : k \in 1..(idx - 1)}
       /\ (pc = "done")
          => /\ idx = Len(file_list) + 1
             /\ Len(file_list) = Len(fs)
             /\ report_out.results = results
             /\ report_out.files_with_non_ascii = Cardinality(DOMAIN results)
             /\ report_out.total_non_ascii_bytes = EntryCount(results)

\* C15 witness: the first file could not be read, the second was scanned
\* after it and has two hits, and the report counts one file and two bytes.
C15_Witness ==
    /\ tool = "scan" /\ pc = "done"
    /\ Len(file_list) = 2
    /\ file_list[1] \in unreadable /\ file_list[2] \notin unreadable
    /\ has_non_ascii(fs[file_list[1]])
    /\ file_list[2] \in DOMAIN results /\ Len(results[file_list[2]]) = 2
    /\ report_out.files_with_non_ascii = 1
    /\ report_out.total_non_ascii_bytes = 2

\* how many of the three state flags are set
FlagsSet == Cardinality({f \in {"s", "l", "b"} :
                            \/ (f = "s" /\ in_string)
                            \/ (f = "l" /\ in_line_comment)
                            \/ (f = "b" /\ in_block_comment)})

\* C16: at most one of in_string, in_line_comment and in_block_comment is
\* set, and escape_next is set only with in_string set and both comment
\* flags clear: the flags always encode code, in_string, in_line_comment or
\* in_block_comment.
C16_OneStateAtATime ==
    (tool = "fix")
    => /\ FlagsSet <= 1
       /\ escape_next => (in_string /\ ~in_line_comment /\ ~in_block_comment)

\* C16 witness: after '"', a backslash and a byte > 127 the classifier is in
\* the string with the escape pending, and no comment flag is set.
C16_Witness ==
    /\ tool = "fix" /\ pc = "scan" /\ col = 3
    /\ SubSeq(line, 1, 3) = <<DQUOTE, BACKSLASH, 169>>
    /\ in_string /\ escape_next /\ FlagsSet = 1

\* the 0-based column, in the line as rewritten, of the byte the warning w
\* is about: every change before it on its line added one byte
ColumnAfterRewrite(w, chs) ==
    (w.col - 1) + Cardinality({n \in DOMAIN chs :
                                 chs[n].line = w.line /\ chs[n].col < w.col})

\* C17: a file processed as ISO-8859-1 with no warning gives content that
\* is valid UTF-8 and that verify_file has no problem with, and that is the
\* content written; with warnings, every problem verify_file has with the
\* new content is at a byte that got a warning.
C17_NoWarningsMeansValid ==
    (tool = "fix" /\ pc = "returned" /\ result.skipped = None)
    => LET out == join(new_lines)
       IN  /\ (Len(result.warnings) = 0)
              => /\ Utf8ValidFrom(out, 1)
                 /\ verify_file(out) = <<>>
                 /\ result.modified
                 /\ ~dry_run => fs[fpath] = out
           /\ ~Utf8ValidFrom(out, 1) => Len(result.warnings) > 0
           /\ \A k \in DOMAIN verify_file(out) :
                LET q == verify_file(out)[k]
                IN  \E n \in DOMAIN result.warnings :
                       LET w == result.warnings[n]
                       IN  /\ w.line = q.line
                           /\ ColumnAfterRewrite(w, result.changes) = q.col
                           /\ w.char = q.char_iso

\* C17 witness: a file of two lines with two bytes > 127 in a comment was
\* converted with no warning and written as valid UTF-8.
C17_Witness ==
    /\ tool = "fix" /\ pc = "returned" /\ result.skipped = None /\ ~dry_run
    /\ Len(result.warnings) = 0 /\ Len(result.changes) = 2
    /\ Len(new_lines) = 2
    /\ fs[fpath] = join(new_lines) /\ fs[fpath] # data
    /\ Utf8ValidFrom(fs[fpath], 1) /\ ~Utf8ValidFrom(data, 1)

\* C19: the run counters of the Converter's main loop agree: the files
\* handled so far are the skipped ones plus the distinct files with an entry
\* in changes or warnings, no skipped file has an entry, and in the report
\* files_processed = skipped_utf8 + skipped_clean + files with an entry,
\* files_changed is the number of entries of changes, total_replacements
\* and total_warnings are the sums of the lengths of the per-file lists.
C19_CountersConsistent ==
    (tool = "fix" /\ pc \in {"loop", "done"})
    => /\ idx - 1 = skipped_utf8 + skipped_clean
                     + Cardinality(DOMAIN all_changes \cup DOMAIN all_warnings)
       /\ skipped_clean = Cardinality({p \in Recorded : Clean(first.fs[p])})
       /\ skipped_utf8 = Cardinality({p \in Recorded : AlreadyUtf8(first.fs[p])})
       /\ \A p \in Recorded :
            (Clean(first.fs[p]) \/ AlreadyUtf8(first.fs[p]))
            => p \notin DOMAIN all_changes \cup DOMAIN all_warnings
       /\ DOMAIN all_changes \cup DOMAIN all_warnings \subseteq Recorded
       /\ (pc = "done")
          => /\ report_out.files_processed
                  = report_out.skipped_utf8 + report_out.skipped_clean
                    + Cardinality(DOMAIN report_out.changes
                                    \cup DOMAIN report_out.warnings)
             /\ report_out.files_processed = Len(file_list)
             /\ report_out.files_changed = Cardinality(DOMAIN report_out.changes)
             /\ report_out.total_replacements = EntryCount(report_out.changes)
             /\ report_out.total_warnings = EntryCount(report_out.warnings)
             /\ \A p \in DOMAIN report_out.changes : Len(report_out.changes[p]) > 0
             /\ \A p \in DOMAIN report_out.warnings : Len(report_out.warnings[p]) > 0

\* C19 witness: a run over three files, two skipped as clean and one with
\* two converted bytes.
C19_Witness ==
    /\ tool = "fix" /\ pc = "done"
    /\ report_out.files_processed = 3
    /\ report_out.skipped_clean = 2 /\ report_out.skipped_utf8 = 0
    /\ report_out.files_changed = 1 /\ report_out.total_replacements = 2
    /\ report_out.total_warnings = 0

=============================================================================
